---- MODULE Spec2Model ----
(***************************************************************************)
(* State-machine model of the allocation and assignment programs of the    *)
(* repository:                                                             *)
(*   code/aed_final_optimization.py      final_aed_allocation              *)
(*   code/real_aed_optimization_with_area.py                               *)
(*                 create_coverage_matrix, area_weighted_multi_cover_      *)
(*                 deployment, main                                        *)
(*   code/optimized_volunteer_assignment_simple.py                         *)
(*   code/volunteer_analysis_latest.py   optimize_volunteer_assignment     *)
(*   code/aed_final_optimization.py, code/aed_balanced_simple.py,          *)
(*   code/risk_model_paper_aligned.py,                                     *)
(*   code/optimized_risk_model_with_area.py                                *)
(*                 the min-max normalisation and the area weights          *)
(*   run_complete_analysis.py            run_script, main                  *)
(*   code/aed_balanced_simple.py         balanced_aed_allocation           *)
(*   code/update_aed_data_integration.py integrate_aed_data                *)
(* Python containers are 0-based, so vectors are functions on 0..n-1.      *)
(***************************************************************************)
EXTENDS Integers, Sequences, FiniteSets, TLC

\* ------------------------------------------------------------------ bounds
MaxSubzones == 3
MaxBudget == 7

\* priority_score values the inputs are drawn from, in tenths: 0.0, 0.1, 0.5,
\* 0.9 and 1.0.  final_aed_allocation uses priorities only through
\* priority_scores[i] / priority_sum and through their order, so the unit of
\* the numerators does not matter.
PriorityGrid == {0, 1, 5, 9, 10}

\* balanced_aed_allocation: tables of up to MaxTierSubzones subzones (the top
\* 20% tier needs 5), AED_count sums of up to MaxTierBudget
MaxTierSubzones == 5
MaxTierBudget == 14

\* integrate_aed_data: device files of up to MaxAeds rows
MaxAeds == 3

\* priority scores of the tiered allocation, in tenths
TierPriorityGrid == {0, 5}

VARIABLES
    program,                  \* which script's function the run executes
    pc,                       \* position inside that function
    \* ---- final_aed_allocation (aed_final_optimization.py)
    n_subzones,               \* len(subzone_data)
    priority_scores,          \* Series: label i |-> numerator of priority
    total_aeds,               \* target total (the literal 6613 in the source)
    argsort_values,           \* what numpy's argsort returns for priority_scores
    fp_loss,                  \* subzones whose float product falls below its exact integer value
    remaining_aeds,
    priority_indices,         \* Series np.argsort(priority_scores)[::-1]
    priority_sum,
    proportional_allocation,
    base_allocation,
    remaining_after_proportional,
    loop_i,                   \* loop variable of the remainder loop (line 114)
    last_idx,                 \* idx of the latest remainder iteration (line 115)
    run,                      \* 1 for the first call, 2 for a repeated call
    first_result,             \* allocation returned by the first call
    \* ---- real_aed_optimization_with_area.py
    latitude,                 \* subzone centroids, metres along one meridian
    Total_Total,              \* subzone population
    coverage_matrix,
    prob_status,              \* prob.status after prob.solve()
    deployment,
    coverage_effect,
    main_outcome,
    \* ---- optimized_volunteer_assignment_simple.py, volunteer_analysis_latest.py
    subzone_priority,         \* risk_scores[i] * area_weights[i] / priority_score
    n_volunteers,             \* len(volunteer_data)
    volunteer_data,           \* rows: latitude, availability, response_time
    distance_matrix,
    x_value,                  \* the pairs whose variable x[(i, j)] has value 1
    assignments,              \* the assignment records built from x
    returned,                 \* "pending", "list" or "None"
    \* ---- the scripts that normalise risk scores and weigh by population
    elderly_ratio,            \* column elderly_ratio, in thousandths
    low_income_ratio,         \* column low_income_ratio, in thousandths
    risk_score,               \* column risk_score (raw)
    normalized_risk_score,    \* column normalized_risk_score / risk_score_normalized
    area_weight,              \* column area_weight
    priority_score,           \* normalized_risk_score * area_weight
    \* ---- run_complete_analysis.py
    step,                     \* the step main is at (1..5), 6 after the last
    child,                    \* step |-> state of the process run_script started
    started,                  \* the script paths handed to subprocess.run, in order
    files,                    \* file name |-> who wrote the file
    risk_source,              \* step |-> where the script took its risk scores from
    \* ---- tables whose priority_scores hold NaN
    undefined_priority,       \* the labels whose priority_scores entry is NaN
    \* ---- update_aed_data_integration.py
    aed_data,                 \* rows of the device file: position, metres on the meridian
    aed_assignments,          \* the records appended so far
    AED_count,                \* the updated column AED_count
    covered_subzones,         \* the printed statistics
    no_aed_subzones

allocVars == <<n_subzones, priority_scores, total_aeds, argsort_values, fp_loss,
               remaining_aeds, priority_indices, priority_sum,
               proportional_allocation, base_allocation,
               remaining_after_proportional, loop_i, last_idx, run, first_result>>

\* the fallback allocator's variables other than n_subzones and total_aeds
allocVarsButShared == <<priority_scores, argsort_values, fp_loss, remaining_aeds,
                        priority_indices, priority_sum, proportional_allocation,
                        base_allocation, remaining_after_proportional, loop_i,
                        last_idx, run, first_result>>

milpVars == <<latitude, Total_Total, coverage_matrix, prob_status, deployment,
              coverage_effect, main_outcome>>

assignVars == <<subzone_priority, n_volunteers, volunteer_data, distance_matrix,
                x_value, assignments, returned>>

loadVars == <<elderly_ratio, low_income_ratio, risk_score, normalized_risk_score,
              area_weight, priority_score>>

pipeVars == <<step, child, started, files, risk_source>>

mergeVars == <<undefined_priority>>

integrateVars == <<aed_data, aed_assignments, AED_count, covered_subzones, no_aed_subzones>>

vars == <<program, pc, allocVars, milpVars, assignVars, loadVars, pipeVars, mergeVars,
          integrateVars>>

\* ----------------------------------------------------------------- helpers
Range0(n) == 0 .. (n - 1)

RECURSIVE SumTo(_, _)
\* f[0] + ... + f[k-1]   (numpy / pandas .sum(), Python sum())
SumTo(f, k) == IF k = 0 THEN 0 ELSE SumTo(f, k - 1) + f[k - 1]

\* Python int(a / b) for b > 0 in exact arithmetic: truncation toward zero.
TruncDiv(a, b) == IF a >= 0 THEN a \div b ELSE -((-a) \div b)

Sign(a) == IF a > 0 THEN 1 ELSE IF a < 0 THEN -1 ELSE 0

\* All orders numpy.argsort may return for the values ps (ascending; the
\* default kind 'quicksort' is not stable, so the order among equal values is
\* the sort implementation's).
ArgsortResults(ps, n) ==
    { o \in [Range0(n) -> Range0(n)] :
        /\ \A a, b \in Range0(n) : a # b => o[a] # o[b]
        /\ \A k \in Range0(n - 1) : ps[o[k]] <= ps[o[k + 1]] }

\* pandas Series: a tuple of (label, value) entries by position.
\* Series.argsort(): the argsort values under the labels of the input 0..n-1.
SeriesArgsort(values, n) == [k \in Range0(n) |-> [label |-> k, value |-> values[k]]]

\* Series[::-1]: positional slice, entries (labels with their values) reversed.
SeriesReversed(s, n) == [k \in Range0(n) |-> s[n - 1 - k]]

\* Faulty variant: integer keys read as positions (Series.iloc[key]).
SeriesGetItemPositional(s, n, key) == s[key].value

\* Series[key] with an integer key on an integer index: lookup by label.
SeriesGetItem(s, n, key) == s[CHOOSE k \in Range0(n) : s[k].label = key].value

\* int(remaining_aeds * (priority_scores[i] / priority_sum)), priority_sum > 0.
\* The double product equals the exact quotient unless that quotient is a
\* non-zero integer and the proportion is not exactly 1.0; there the rounded
\* proportion can leave the product just below the integer (4 * (0.3 / 0.4) is
\* 2.9999999999999996), and int() then loses one unit.
FpLossPossible(rem, p, psum) ==
    /\ psum > 0
    /\ rem * p # 0
    /\ p # psum
    /\ (rem * p) % psum = 0

ExtraAeds(rem, p, psum, lossy) ==
    LET exact == TruncDiv(rem * p, psum)
    IN  IF lossy /\ FpLossPossible(rem, p, psum) THEN exact - Sign(exact) ELSE exact

\* ---------------------------------------------- final_aed_allocation: Init
NoVector == <<>>

\* Python None
None == <<>>

\* The variables of real_aed_optimization_with_area.py while another script runs.
IdleMilp ==
    /\ latitude = NoVector
    /\ Total_Total = NoVector
    /\ coverage_matrix = NoVector
    /\ prob_status = 0
    /\ deployment = None
    /\ coverage_effect = None
    /\ main_outcome = "running"

\* The variables of the assignment scripts while another script runs.
IdleAssign ==
    /\ subzone_priority = NoVector
    /\ n_volunteers = 0
    /\ volunteer_data = NoVector
    /\ distance_matrix = NoVector
    /\ x_value = {}
    /\ assignments = {}
    /\ returned = "pending"

\* The variables of the normalising scripts while another script runs.
IdleLoad ==
    /\ elderly_ratio = NoVector
    /\ low_income_ratio = NoVector
    /\ risk_score = NoVector
    /\ normalized_risk_score = NoVector
    /\ area_weight = NoVector
    /\ priority_score = NoVector

\* No entry of priority_scores is NaN.
IdleMerge == undefined_priority = {}

\* The variables of update_aed_data_integration.py while another script runs.
IdleIntegrate ==
    /\ aed_data = NoVector
    /\ aed_assignments = <<>>
    /\ AED_count = NoVector
    /\ covered_subzones = 0
    /\ no_aed_subzones = 0

\* The variables of run_complete_analysis.py while a script runs on its own.
IdlePipe ==
    /\ step = 0
    /\ child = NoVector
    /\ started = <<>>
    /\ files = NoVector
    /\ risk_source = NoVector

InitFallback ==
    /\ program = "final_aed_allocation"
    /\ IdleMilp
    /\ IdleAssign
    /\ IdleLoad
    /\ IdlePipe
    /\ IdleMerge
    /\ IdleIntegrate
    /\ pc = "start"
    /\ n_subzones \in 1 .. MaxSubzones
    /\ priority_scores \in [Range0(n_subzones) -> PriorityGrid]
    /\ total_aeds \in 0 .. MaxBudget
    /\ argsort_values \in ArgsortResults(priority_scores, n_subzones)
    /\ fp_loss \in SUBSET { i \in Range0(n_subzones) :
            FpLossPossible(total_aeds - n_subzones, priority_scores[i],
                           SumTo(priority_scores, n_subzones)) }
    /\ remaining_aeds = 0
    /\ priority_indices = NoVector
    /\ priority_sum = 0
    /\ proportional_allocation = NoVector
    /\ base_allocation = NoVector
    /\ remaining_after_proportional = 0
    /\ loop_i = 0
    /\ last_idx = -1
    /\ run = 1
    /\ first_result = NoVector

\* ------------------------------------------- final_aed_allocation: actions
\* numpy's a[idx] for an integer idx: a negative idx counts from the end.
NumpyIndex(idx, n) == IF idx < 0 THEN idx + n ELSE idx

\* lines 96-97 with a NaN entry: priority_scores.sum() skips NaN, so with a
\* positive sum the loop reaches proportion = nan / priority_sum = nan and
\* int(remaining_aeds * nan) raises ValueError.  (priority_scores holds 0 at
\* the labels of undefined_priority, which is what sum() counts for them.)
ConversionRaises ==
    undefined_priority # {} /\ SumTo(priority_scores, n_subzones) > 0

\* Faulty variant: the share is taken of the whole budget and the base unit
\* is taken off it.
ShareOfWholeBudget(i) ==
    IF priority_sum' > 0
    THEN ExtraAeds(total_aeds, priority_scores[i], priority_sum', i \in fp_loss) - 1
    ELSE 0

ProportionalShare(i) ==
    IF priority_sum' > 0
    THEN ExtraAeds(remaining_aeds', priority_scores[i], priority_sum', i \in fp_loss)
    ELSE 0

\* lines 80-100: base allocation, sort order, proportional shares
ComputeProportional ==
    /\ program = "final_aed_allocation" /\ pc = "start"
    /\ ~ConversionRaises
    /\ base_allocation' = [i \in Range0(n_subzones) |-> 1]
    /\ remaining_aeds' = total_aeds - n_subzones
    /\ priority_indices' = SeriesReversed(SeriesArgsort(argsort_values, n_subzones), n_subzones)
    /\ priority_sum' = SumTo(priority_scores, n_subzones)
    /\ proportional_allocation' = [i \in Range0(n_subzones) |-> ProportionalShare(i)]
    /\ pc' = "add_proportional"
    /\ UNCHANGED <<program, mergeVars, integrateVars, loadVars, pipeVars, n_subzones, priority_scores, total_aeds, argsort_values,
                   fp_loss, remaining_after_proportional, loop_i, last_idx, run,
                   first_result, milpVars, assignVars>>

\* lines 103-108: add the shares, count what is left
AddProportional ==
    /\ program = "final_aed_allocation" /\ pc = "add_proportional"
    /\ base_allocation' = [i \in Range0(n_subzones) |->
                              base_allocation[i] + proportional_allocation[i]]
    /\ remaining_after_proportional' = total_aeds - SumTo(base_allocation', n_subzones)
    /\ loop_i' = 0
    /\ pc' = "remainder"
    /\ UNCHANGED <<program, mergeVars, integrateVars, loadVars, pipeVars, n_subzones, priority_scores, total_aeds, argsort_values,
                   fp_loss, remaining_aeds, priority_indices, priority_sum,
                   proportional_allocation, last_idx, run, first_result, milpVars, assignVars>>

\* Faulty variant: the round-robin cursor is kept between calls instead of
\* restarting at 0.
RemainderIdxKeepsCursor(i) ==
    SeriesGetItem(priority_indices, n_subzones, (i + run - 1) % n_subzones)

\* line 115: idx = priority_indices[i % len(priority_indices)]
RemainderIdx(i) == SeriesGetItem(priority_indices, n_subzones, i % n_subzones)

\* lines 113-116: one iteration of the remainder loop
DistributeRemainder ==
    /\ program = "final_aed_allocation" /\ pc = "remainder"
    /\ remaining_after_proportional > 0
    /\ loop_i < remaining_after_proportional
    /\ last_idx' = RemainderIdx(loop_i)
    /\ base_allocation' = [base_allocation EXCEPT ![NumpyIndex(last_idx', n_subzones)] = @ + 1]
    /\ loop_i' = loop_i + 1
    /\ UNCHANGED <<program, mergeVars, integrateVars, loadVars, pipeVars, pc, n_subzones, priority_scores, total_aeds, argsort_values,
                   fp_loss, remaining_aeds, priority_indices, priority_sum,
                   proportional_allocation, remaining_after_proportional, run,
                   first_result, milpVars, assignVars>>

\* lines 129-131, 148: the loop is over, results['optimized_aeds'] = base_allocation
ReturnAllocation ==
    /\ program = "final_aed_allocation" /\ pc = "remainder"
    /\ ~(remaining_after_proportional > 0 /\ loop_i < remaining_after_proportional)
    /\ pc' = "done"
    /\ UNCHANGED <<program, mergeVars, integrateVars, loadVars, pipeVars, allocVars, milpVars, assignVars>>

\* A second call of final_aed_allocation on the same table in the same
\* process: every local is rebuilt (lines 63-107), the inputs, the sort
\* implementation and the float arithmetic are the same.
CallAgain ==
    /\ program = "final_aed_allocation" /\ pc = "done" /\ run = 1
    /\ run' = 2
    /\ first_result' = base_allocation
    /\ pc' = "start"
    /\ remaining_aeds' = 0
    /\ priority_indices' = NoVector
    /\ priority_sum' = 0
    /\ proportional_allocation' = NoVector
    /\ base_allocation' = NoVector
    /\ remaining_after_proportional' = 0
    /\ loop_i' = 0
    /\ last_idx' = -1
    /\ UNCHANGED <<program, mergeVars, integrateVars, loadVars, pipeVars, n_subzones, priority_scores, total_aeds, argsort_values, fp_loss,
                   milpVars, assignVars>>

\* lines 93-97 on a table with undefined priorities and a positive sum of the
\* defined ones: ValueError (cannot convert float NaN to integer) leaves
\* final_aed_allocation, nothing is returned.
ProportionalRaises ==
    /\ program = "final_aed_allocation" /\ pc = "start"
    /\ ConversionRaises
    /\ pc' = "raised"
    /\ UNCHANGED <<program, mergeVars, integrateVars, loadVars, pipeVars, allocVars,
                   milpVars, assignVars>>

NextFallback ==
    \/ ComputeProportional
    \/ AddProportional
    \/ DistributeRemainder
    \/ ReturnAllocation
    \/ CallAgain

SpecFallback == InitFallback /\ [][NextFallback]_vars

\* ------------- final_aed_allocation on a table merged with a risk file that
\* lacks some subzones (load_data, lines 33-38: how='left' leaves NaN in
\* normalized_risk_score, hence in priority_scores, line 73)

\* the number of defined entries before position k
CompressedPosition(k, undefined) == Cardinality(Range0(k) \ undefined)

\* values[notmask]: the defined entries, in table order
Compressed(ps, undefined, n) ==
    [t \in Range0(n - Cardinality(undefined)) |->
        ps[CHOOSE k \in Range0(n) \ undefined : CompressedPosition(k, undefined) = t]]

\* Series.argsort of pandas before 3.0: -1 at the NaN entries, and at the
\* others the argsort of the array of defined entries (positions in that array)
ArgsortDroppingNaN(ps, undefined, n) ==
    { [k \in Range0(n) |->
          IF k \in undefined THEN -1 ELSE c[CompressedPosition(k, undefined)]] :
      c \in ArgsortResults(Compressed(ps, undefined, n), n - Cardinality(undefined)) }

\* Series.argsort of pandas from 3.0 on: NaN entries are ordered last
ArgsortNaNLast(ps, undefined, n) ==
    { o \in [Range0(n) -> Range0(n)] :
        /\ \A a, b \in Range0(n) : a # b => o[a] # o[b]
        /\ \A a, b \in Range0(n) :
              (a < b /\ o[a] \notin undefined /\ o[b] \notin undefined)
                  => ps[o[a]] <= ps[o[b]]
        /\ \A a, b \in Range0(n) :
              (o[a] \in undefined /\ o[b] \notin undefined) => b < a }

\* requirements list pandas without a version: either behaviour can be installed
ArgsortResultsWithNaN(ps, undefined, n) ==
    ArgsortDroppingNaN(ps, undefined, n) \cup ArgsortNaNLast(ps, undefined, n)

\* priority_scores holds 0 at the labels of undefined_priority
InitMerged ==
    /\ program = "final_aed_allocation"
    /\ IdleMilp
    /\ IdleAssign
    /\ IdleLoad
    /\ IdlePipe
    /\ IdleIntegrate
    /\ pc = "start"
    /\ n_subzones \in 1 .. MaxSubzones
    /\ undefined_priority \in SUBSET Range0(n_subzones) \ {{}}
    /\ priority_scores \in { ps \in [Range0(n_subzones) -> PriorityGrid] :
                               \A k \in undefined_priority : ps[k] = 0 }
    /\ total_aeds \in 0 .. MaxBudget
    /\ argsort_values \in ArgsortResultsWithNaN(priority_scores, undefined_priority, n_subzones)
    /\ fp_loss = {}
    /\ remaining_aeds = 0
    /\ priority_indices = NoVector
    /\ priority_sum = 0
    /\ proportional_allocation = NoVector
    /\ base_allocation = NoVector
    /\ remaining_after_proportional = 0
    /\ loop_i = 0
    /\ last_idx = -1
    /\ run = 1
    /\ first_result = NoVector

NextMerged == NextFallback \/ ProportionalRaises

SpecMerged == InitMerged /\ [][NextMerged]_vars

\* =================================================== aed_balanced_simple.py
\* balanced_aed_allocation on a table of numbers, or on one whose priority
\* scores are all NaN (load_data, lines 18 and 30: 0 / 0 for equal risk scores
\* or all-zero populations).  total_aeds is the sum of the column AED_count.
InitBalanced ==
    /\ program = "balanced_aed_allocation"
    /\ IdleMilp
    /\ IdleAssign
    /\ IdleLoad
    /\ IdlePipe
    /\ IdleIntegrate
    /\ pc = "start"
    /\ n_subzones \in 1 .. MaxTierSubzones
    /\ undefined_priority \in {{}, Range0(n_subzones)}
    /\ priority_scores \in { ps \in [Range0(n_subzones) -> TierPriorityGrid] :
                               \A k \in undefined_priority : ps[k] = 0 }
    /\ total_aeds \in 0 .. MaxTierBudget
    /\ argsort_values \in ArgsortResultsWithNaN(priority_scores, undefined_priority, n_subzones)
    /\ fp_loss = {}
    /\ remaining_aeds = 0
    /\ priority_indices = NoVector
    /\ priority_sum = 0
    /\ proportional_allocation = NoVector
    /\ base_allocation = NoVector
    /\ remaining_after_proportional = 0
    /\ loop_i = 0
    /\ last_idx = -1
    /\ run = 1
    /\ first_result = NoVector

\* lines 43-62: one unit each, what is left, the descending sort order
BalancedStart ==
    /\ program = "balanced_aed_allocation" /\ pc = "start"
    /\ base_allocation' = [i \in Range0(n_subzones) |-> 1]
    /\ remaining_aeds' = total_aeds - n_subzones
    /\ priority_indices' =
          IF remaining_aeds' > 0
          THEN SeriesReversed(SeriesArgsort(argsort_values, n_subzones), n_subzones)
          ELSE NoVector
    /\ loop_i' = 0
    /\ pc' = "tiers"
    /\ UNCHANGED <<program, mergeVars, integrateVars, loadVars, pipeVars, n_subzones,
                   priority_scores, total_aeds, argsort_values, fp_loss, priority_sum,
                   proportional_allocation, remaining_after_proportional, last_idx, run,
                   first_result, milpVars, assignVars>>

\* lines 72-77: the most a subzone of rank priority_rank is given on top of its
\* base unit (rank <= n * 0.2, rank <= n * 0.5, in integers)
TierCap(priority_rank) ==
    IF 5 * priority_rank <= n_subzones THEN 5
    ELSE IF 2 * priority_rank <= n_subzones THEN 3
    ELSE 1

\* Python min() of two numbers
Min(a, b) == IF a <= b THEN a ELSE b

\* lines 65-80: one iteration of "for i, idx in enumerate(priority_indices)";
\* enumerate walks the values by position
BalancedTierStep ==
    /\ program = "balanced_aed_allocation" /\ pc = "tiers"
    /\ remaining_aeds > 0
    /\ loop_i < n_subzones
    /\ last_idx' = priority_indices[loop_i].value
    /\ LET extra_aeds == Min(remaining_aeds, TierCap(loop_i + 1))
       IN  /\ base_allocation' =
                 [base_allocation EXCEPT ![NumpyIndex(last_idx', n_subzones)] = @ + extra_aeds]
           /\ remaining_aeds' = remaining_aeds - extra_aeds
    /\ loop_i' = loop_i + 1
    /\ UNCHANGED <<program, mergeVars, integrateVars, loadVars, pipeVars, pc, n_subzones,
                   priority_scores, total_aeds, argsort_values, fp_loss, priority_indices,
                   priority_sum, proportional_allocation, remaining_after_proportional,
                   run, first_result, milpVars, assignVars>>

\* lines 60, 66-67, 94: no extra unit to give, or the single pass over the
\* subzones is over; base_allocation is returned
BalancedReturn ==
    /\ program = "balanced_aed_allocation" /\ pc = "tiers"
    /\ ~(remaining_aeds > 0 /\ loop_i < n_subzones)
    /\ pc' = "done"
    /\ UNCHANGED <<program, mergeVars, integrateVars, loadVars, pipeVars, allocVars,
                   milpVars, assignVars>>

NextBalanced ==
    \/ BalancedStart
    \/ BalancedTierStep
    \/ BalancedReturn

SpecBalanced == InitBalanced /\ [][NextBalanced]_vars

\* ================================= real_aed_optimization_with_area.py
\* Candidate centroids, in metres along one meridian: the geodesic distance of
\* two of them is the difference.  Distances 50, 150, 200 (= the radius) and
\* 350 occur.
LinePositions == {0, 150, 200, 350}

\* Populations (Total_Total) the tables are drawn from.
Populations == {0, 1, 2}

\* coverage_radius=200 (main, line 223; the default of create_coverage_matrix)
CoverageRadius == 200

\* pulp.LpStatusOptimal, the literal of "if prob.status == 1"
LpStatusOptimal == 1

\* The other values of pulp's prob.status: not solved, infeasible, unbounded,
\* undefined.
NonOptimalStatuses == {0, -1, -2, -3}

\* The statuses pulp can report for the assignment programs when the solve did
\* not reach optimality: every constraint is "<=" over binary variables, so
\* they are never infeasible or unbounded; a stopped solve is not solved (0)
\* or undefined (-3).
StoppedStatuses == {0, -3}

\* geopy.distance.geodesic(point1, point2).meters for points on one meridian
Geodesic(a, b) == IF a >= b THEN a - b ELSE b - a

\* The fallback allocator's variables while another script runs.
IdleFallback ==
    /\ priority_scores = NoVector
    /\ argsort_values = NoVector
    /\ fp_loss = {}
    /\ remaining_aeds = 0
    /\ priority_indices = NoVector
    /\ priority_sum = 0
    /\ proportional_allocation = NoVector
    /\ base_allocation = NoVector
    /\ remaining_after_proportional = 0
    /\ loop_i = 0
    /\ last_idx = -1
    /\ run = 1
    /\ first_result = NoVector

\* load_data (lines 15-34) and main line 226: a table of 1..MaxSubzones
\* subzones with distinct centroids (rows in centroid order) and at least one
\* inhabited subzone, total_aeds = AED_count.sum().
InitMilp ==
    /\ program = "real_aed_optimization_with_area"
    /\ pc = "start"
    /\ n_subzones \in 1 .. MaxSubzones
    /\ latitude \in { f \in [Range0(n_subzones) -> LinePositions] :
                        \A i \in Range0(n_subzones - 1) : f[i] < f[i + 1] }
    /\ Total_Total \in { f \in [Range0(n_subzones) -> Populations] :
                           \E i \in Range0(n_subzones) : f[i] > 0 }
    /\ total_aeds \in 0 .. MaxBudget
    /\ coverage_matrix = NoVector
    /\ prob_status = 0
    /\ deployment = None
    /\ coverage_effect = None
    /\ main_outcome = "running"
    /\ IdleFallback
    /\ IdleAssign
    /\ IdleLoad
    /\ IdlePipe
    /\ IdleMerge
    /\ IdleIntegrate

\* Faulty variant: a pair at exactly the radius is left uncovered.
CoverageCellStrict(i, j) ==
    IF i # j
    THEN (IF Geodesic(latitude[i], latitude[j]) < CoverageRadius THEN 1 ELSE 0)
    ELSE 0

\* lines 45-55: one cell of the matrix
CoverageCell(i, j) ==
    IF i # j
    THEN (IF Geodesic(latitude[i], latitude[j]) <= CoverageRadius THEN 1 ELSE 0)
    ELSE 0

\* create_coverage_matrix (lines 42-60)
CreateCoverageMatrix ==
    /\ program = "real_aed_optimization_with_area" /\ pc = "start"
    /\ coverage_matrix' = [i \in Range0(n_subzones) |->
                              [j \in Range0(n_subzones) |-> CoverageCell(i, j)]]
    /\ pc' = "matrix"
    /\ UNCHANGED <<program, mergeVars, integrateVars, loadVars, pipeVars, n_subzones, total_aeds, allocVarsButShared, assignVars, latitude,
                   Total_Total, prob_status, deployment, coverage_effect, main_outcome>>

\* risk_scores[i] * area_weights[i] (lines 70-71, 82): both columns are
\* normalized_density = Total_Total / max(Total_Total), so the product is
\* Total_Total[i]^2 / max^2; the positive common factor 1 / max^2 is left out.
RiskTimesWeight(i) == Total_Total[i] * Total_Total[i]

\* lines 102: sum of deployment[j] over the j with coverage_matrix[i, j] == 1
RECURSIVE CoveredTimesTo(_, _, _)
CoveredTimesTo(x, i, k) ==
    IF k = 0 THEN 0
    ELSE CoveredTimesTo(x, i, k - 1)
         + (IF coverage_matrix[i][k - 1] = 1 THEN x[k - 1] ELSE 0)

CoveredTimes(x, i) == CoveredTimesTo(x, i, n_subzones)

\* lines 101-104: coverage_effect of a deployment
CoverageEffect(x) == [i \in Range0(n_subzones) |-> CoveredTimes(x, i) * RiskTimesWeight(i)]

\* lines 81-84: the objective
DeployObjective(x) == SumTo(CoverageEffect(x), n_subzones)

\* Faulty variant: the budget is an upper bound instead of an equality.
FeasibleDeploymentsAtMost ==
    { x \in [Range0(n_subzones) -> 0 .. total_aeds] : SumTo(x, n_subzones) <= total_aeds }

\* lines 77, 87: x_j integer, x_j >= 0, sum x_j == total_aeds
FeasibleDeployments ==
    { x \in [Range0(n_subzones) -> 0 .. total_aeds] : SumTo(x, n_subzones) = total_aeds }

\* the coefficient of x_j in the objective (lines 81-84):
\* sum over i of coverage_matrix[i, j] * risk_scores[i] * area_weights[i]
ColumnWeight(j) ==
    SumTo([i \in Range0(n_subzones) |-> coverage_matrix[i][j] * RiskTimesWeight(i)],
          n_subzones)

\* Faulty variant: the solver stops at any point that meets the constraints.
AnyFeasiblePoint == FeasibleDeployments

\* what prob.solve() may leave in x when it ends with status Optimal
OptimalDeployments ==
    { x \in FeasibleDeployments :
        \A y \in FeasibleDeployments : DeployObjective(y) <= DeployObjective(x) }

\* area_weighted_multi_cover_deployment, status 1 (lines 91-115)
DeploySolvedOptimal ==
    /\ program = "real_aed_optimization_with_area" /\ pc = "matrix"
    /\ prob_status' = LpStatusOptimal
    /\ deployment' \in OptimalDeployments
    /\ coverage_effect' = CoverageEffect(deployment')
    /\ pc' = "returned"
    /\ UNCHANGED <<program, mergeVars, integrateVars, loadVars, pipeVars, n_subzones, total_aeds, allocVarsButShared, assignVars, latitude,
                   Total_Total, coverage_matrix, main_outcome>>

\* area_weighted_multi_cover_deployment, any other status (lines 117-119)
DeployNotOptimal ==
    /\ program = "real_aed_optimization_with_area" /\ pc = "matrix"
    /\ prob_status' \in NonOptimalStatuses
    /\ deployment' = None
    /\ coverage_effect' = None
    /\ pc' = "returned"
    /\ UNCHANGED <<program, mergeVars, integrateVars, loadVars, pipeVars, n_subzones, total_aeds, allocVarsButShared, assignVars, latitude,
                   Total_Total, coverage_matrix, main_outcome>>

\* main, lines 231-240
MainReport ==
    /\ program = "real_aed_optimization_with_area" /\ pc = "returned"
    /\ main_outcome' = IF deployment # None THEN "completed" ELSE "failed"
    /\ pc' = "main_done"
    /\ UNCHANGED <<program, mergeVars, integrateVars, loadVars, pipeVars, n_subzones, total_aeds, allocVarsButShared, assignVars, latitude,
                   Total_Total, coverage_matrix, prob_status, deployment, coverage_effect>>

NextMilp ==
    \/ CreateCoverageMatrix
    \/ DeploySolvedOptimal
    \/ DeployNotOptimal
    \/ MainReport

SpecMilp == InitMilp /\ [][NextMilp]_vars

\* ===== optimized_volunteer_assignment_simple.py, volunteer_analysis_latest.py
MaxVolunteers == 4

\* max_distance=1000 (main; the default of create_distance_matrix)
MaxDistance == 1000

\* "<= 3": the capacity of a subzone in volunteer_analysis_latest.py
MaxPerSubzone == 3

AssignPrograms == {"optimized_volunteer_assignment_simple", "volunteer_analysis_latest"}

\* Candidate subzone centroids and volunteer positions, metres along one
\* meridian.  Distances 0, 1, 1000 (= max_distance), 1001, 1500 and 2500 occur.
AssignCentroids == {1000, 2000}

\* Priorities (risk x area weight) the subzones are drawn from.
AssignPriorities == {0, 1, 5}

\* Volunteer rows: available ones at three positions with two response times,
\* and an unavailable one next to a centroid.
VolunteerTypes ==
    [latitude : {999, 1000, 3500}, availability : {1}, response_time : {2, 4}]
        \cup {[latitude |-> 1000, availability |-> 0, response_time |-> 2]}

\* Volunteers are interchangeable in both programs: tables are enumerated up
\* to the order of their rows.
VolunteerRank(v) == v.latitude * 100 + v.response_time * 2 + v.availability

\* np.inf and a finite distance as matrix cells
Inf == [finite |-> FALSE, metres |-> 0]

Finite(d) == [finite |-> TRUE, metres |-> d]

InitAssign ==
    /\ program \in AssignPrograms
    /\ pc = "start"
    /\ n_subzones \in 1 .. MaxSubzones
    /\ latitude \in { f \in [Range0(n_subzones) -> AssignCentroids] :
                        \A i \in Range0(n_subzones - 1) : f[i] < f[i + 1] }
    /\ subzone_priority \in [Range0(n_subzones) -> AssignPriorities]
    /\ n_volunteers \in 1 .. MaxVolunteers
    /\ volunteer_data \in { f \in [Range0(n_volunteers) -> VolunteerTypes] :
            \A j \in Range0(n_volunteers - 1) :
                VolunteerRank(f[j]) <= VolunteerRank(f[j + 1]) }
    /\ distance_matrix = NoVector
    /\ x_value = {}
    /\ assignments = {}
    /\ returned = "pending"
    /\ total_aeds = 0
    /\ prob_status = 0
    /\ IdleFallback
    /\ IdleLoad
    /\ IdlePipe
    /\ IdleMerge
    /\ IdleIntegrate
    /\ Total_Total = NoVector
    /\ coverage_matrix = NoVector
    /\ deployment = None
    /\ coverage_effect = None
    /\ main_outcome = "running"

\* Faulty variant: the distance of every available volunteer is stored,
\* whatever the radius.
DistanceCellNoRadius(i, j) ==
    IF volunteer_data[j].availability = 1
    THEN Finite(Geodesic(latitude[i], volunteer_data[j].latitude))
    ELSE Inf

\* Faulty variant: the availability column is not read.
DistanceCellAnyAvailability(i, j) ==
    IF Geodesic(latitude[i], volunteer_data[j].latitude) <= MaxDistance
    THEN Finite(Geodesic(latitude[i], volunteer_data[j].latitude))
    ELSE Inf

\* create_distance_matrix, loop body (simple: lines 84-93, latest: lines 75-84)
DistanceCell(i, j) ==
    IF volunteer_data[j].availability = 1
    THEN (IF Geodesic(latitude[i], volunteer_data[j].latitude) <= MaxDistance
          THEN Finite(Geodesic(latitude[i], volunteer_data[j].latitude))
          ELSE Inf)
    ELSE Inf

\* create_distance_matrix (the same code in both scripts)
CreateDistanceMatrix ==
    /\ program \in AssignPrograms /\ pc = "start"
    /\ distance_matrix' = [i \in Range0(n_subzones) |->
                              [j \in Range0(n_volunteers) |-> DistanceCell(i, j)]]
    /\ pc' = "matrix"
    /\ UNCHANGED <<program, mergeVars, integrateVars, loadVars, pipeVars, n_subzones, total_aeds, allocVarsButShared, milpVars,
                   subzone_priority, n_volunteers, volunteer_data, x_value,
                   assignments, returned>>

\* the pairs with distance_matrix[i, j] != np.inf
ValidPairs ==
    { p \in Range0(n_subzones) \X Range0(n_volunteers) :
        distance_matrix[p[1]][p[2]].finite }

\* Faulty variant: the priority of the subzone is left out of the weight.
WeightWithoutPriority(i, j) == 4 \div volunteer_data[j].response_time

\* simple, lines 134-135: risk * area weight * (1 / response_time), times 4
SimpleWeight(i, j) == subzone_priority[i] * (4 \div volunteer_data[j].response_time)

\* latest, lines 110-111: priority_score * (1 / (distance + 1)), times 2002
LatestWeight(i, j) == subzone_priority[i] * (2002 \div (distance_matrix[i][j].metres + 1))

PairWeight(i, j) ==
    IF program = "volunteer_analysis_latest" THEN LatestWeight(i, j) ELSE SimpleWeight(i, j)

\* lpSum of the objective terms of the pairs set to 1
AssignObjective(x) ==
    SumTo([j \in Range0(n_volunteers) |->
              SumTo([i \in Range0(n_subzones) |->
                        IF <<i, j>> \in x THEN PairWeight(i, j) ELSE 0], n_subzones)],
          n_volunteers)

VolunteerLoad(x, j) == Cardinality({ p \in x : p[2] = j })

SubzoneLoad(x, i) == Cardinality({ p \in x : p[1] = i })

\* simple, lines 142-147: each available volunteer with a valid pair, <= 1
SimpleVolunteerConstraint(x) ==
    \A j \in Range0(n_volunteers) :
        (volunteer_data[j].availability = 1 /\ \E p \in ValidPairs : p[2] = j)
            => VolunteerLoad(x, j) <= 1

\* Faulty variant: the bound is put on every single variable x[i, j] instead
\* of on the sum over the subzones of a volunteer.
VolunteerConstraintPerPair(x) ==
    \A j \in Range0(n_volunteers) : \A i \in Range0(n_subzones) :
        Cardinality({ p \in x : p = <<i, j>> }) <= 1

\* latest, lines 117-119: each volunteer, <= 1
LatestVolunteerConstraint(x) ==
    \A j \in Range0(n_volunteers) : VolunteerLoad(x, j) <= 1

\* latest, lines 122-124: each subzone, <= 3
LatestCapacityConstraint(x) ==
    \A i \in Range0(n_subzones) : SubzoneLoad(x, i) <= MaxPerSubzone

\* The binary programs: which sets of pairs may be set to 1.
FeasibleAssignments ==
    { x \in SUBSET ValidPairs :
        IF program = "volunteer_analysis_latest"
        THEN LatestVolunteerConstraint(x) /\ LatestCapacityConstraint(x)
        ELSE SimpleVolunteerConstraint(x) }

MaxObjective(S) == CHOOSE v \in { AssignObjective(x) : x \in S } :
                       \A x \in S : AssignObjective(x) <= v

\* what prob.solve() may leave in x when it ends with status Optimal
OptimalAssignments ==
    LET F == FeasibleAssignments
        best == MaxObjective(F)
    IN  { x \in F : AssignObjective(x) = best }

\* the records appended for the pairs whose variable has value 1
\* (simple: lines 172-186, latest: lines 136-149)
AssignmentRecords(x) ==
    { [subzone |-> p[1], volunteer |-> p[2],
       distance |-> distance_matrix[p[1]][p[2]].metres] :
        p \in { q \in ValidPairs : q \in x } }

\* simple, status 1 (lines 166-193)
SimpleSolvedOptimal ==
    /\ program = "optimized_volunteer_assignment_simple" /\ pc = "matrix"
    /\ prob_status' = LpStatusOptimal
    /\ x_value' \in OptimalAssignments
    /\ assignments' = AssignmentRecords(x_value')
    /\ returned' = "list"
    /\ pc' = "returned"
    /\ UNCHANGED <<program, mergeVars, integrateVars, loadVars, pipeVars, n_subzones, total_aeds, allocVarsButShared, latitude,
                   Total_Total, coverage_matrix, deployment, coverage_effect,
                   main_outcome, subzone_priority, n_volunteers, volunteer_data,
                   distance_matrix>>

\* simple, any other status (lines 195-197): return None
SimpleNotOptimal ==
    /\ program = "optimized_volunteer_assignment_simple" /\ pc = "matrix"
    /\ prob_status' \in StoppedStatuses
    /\ x_value' = {}
    /\ assignments' = {}
    /\ returned' = "None"
    /\ pc' = "returned"
    /\ UNCHANGED <<program, mergeVars, integrateVars, loadVars, pipeVars, n_subzones, total_aeds, allocVarsButShared, latitude,
                   Total_Total, coverage_matrix, deployment, coverage_effect,
                   main_outcome, subzone_priority, n_volunteers, volunteer_data,
                   distance_matrix>>

\* latest (lines 131-151): the status is only printed and the records are
\* built from whatever the solver left in x.  With status Optimal that is an
\* optimal point; otherwise the solve stopped early, and since every
\* constraint is "<=" with the all-zero point feasible, what it leaves is a
\* feasible point (the incumbent, all-zero when there is none).
LatestSolved ==
    /\ program = "volunteer_analysis_latest" /\ pc = "matrix"
    /\ \/ /\ prob_status' = LpStatusOptimal
          /\ x_value' \in OptimalAssignments
       \/ /\ prob_status' \in StoppedStatuses
          /\ x_value' \in FeasibleAssignments
    /\ assignments' = AssignmentRecords(x_value')
    /\ returned' = "list"
    /\ pc' = "returned"
    /\ UNCHANGED <<program, mergeVars, integrateVars, loadVars, pipeVars, n_subzones, total_aeds, allocVarsButShared, latitude,
                   Total_Total, coverage_matrix, deployment, coverage_effect,
                   main_outcome, subzone_priority, n_volunteers, volunteer_data,
                   distance_matrix>>

NextAssign ==
    \/ CreateDistanceMatrix
    \/ SimpleSolvedOptimal
    \/ SimpleNotOptimal
    \/ LatestSolved

SpecAssign == InitAssign /\ [][NextAssign]_vars

\* ============ min-max normalisation of risk scores, area weights, priorities
\* aed_final_optimization.py load_data (the branch taken when the risk file is
\* not found) and final_aed_allocation line 73, aed_balanced_simple.py
\* load_data, risk_model_paper_aligned.py predict_risk_scores,
\* optimized_risk_model_with_area.py generate_risk_scores.
NormalizeSites == {"aed_final_optimization", "aed_balanced_simple",
                   "risk_model_paper_aligned", "optimized_risk_model_with_area"}

\* The scripts whose risk_score is the output of a trained model.
PredictingSites == {"risk_model_paper_aligned", "optimized_risk_model_with_area"}

\* elderly_ratio and low_income_ratio values, in thousandths
RatioGrid == {0, 1}

\* raw risk scores a model predicts (or a risk_score column holds)
RiskGrid == {-3, 0, 4, 10}

\* IEEE doubles as the columns hold them: a quotient num / den with den > 0,
\* NaN, or an infinity (num is its sign).
NaN == [kind |-> "nan", num |-> 0, den |-> 1]

Infinity(sign) == [kind |-> "inf", num |-> sign, den |-> 1]

Num(a, b) == [kind |-> "num", num |-> a, den |-> b]

\* numpy's true division of two numbers: x / 0 is NaN for x = 0 and +-inf
\* otherwise, no exception is raised.
FloatDiv(a, b) ==
    IF b = 0 THEN (IF a = 0 THEN NaN ELSE Infinity(Sign(a)))
    ELSE IF b > 0 THEN Num(a, b) ELSE Num(-a, -b)

\* the product of two doubles
FloatMul(v, w) ==
    IF v.kind = "nan" \/ w.kind = "nan" THEN NaN
    ELSE IF v.kind = "num" /\ w.kind = "num" THEN Num(v.num * w.num, v.den * w.den)
    ELSE IF v.num = 0 \/ w.num = 0 THEN NaN
    ELSE Infinity(Sign(v.num) * Sign(w.num))

\* Series.min() and Series.max()
SeriesMin(f, n) == CHOOSE v \in { f[i] : i \in Range0(n) } : \A i \in Range0(n) : v <= f[i]

SeriesMax(f, n) == CHOOSE v \in { f[i] : i \in Range0(n) } : \A i \in Range0(n) : f[i] <= v

\* Faulty variant: the scores are divided by the maximum, the minimum is not
\* subtracted.
DivideByMax(rs, n) == [i \in Range0(n) |-> FloatDiv(rs[i], SeriesMax(rs, n))]

\* (risk_score - risk_score.min()) / (risk_score.max() - risk_score.min())
MinMaxNormalize(rs, n) ==
    [i \in Range0(n) |-> FloatDiv(rs[i] - SeriesMin(rs, n), SeriesMax(rs, n) - SeriesMin(rs, n))]

\* Total_Total / Total_Total.max()
AreaWeights(pop, n) == [i \in Range0(n) |-> FloatDiv(pop[i], SeriesMax(pop, n))]

\* Total_Total * 0.4 + elderly_ratio * 10000 * 0.3 + low_income_ratio * 10000 * 0.3,
\* in tenths (the ratios are in thousandths)
FormulaRisk(n) ==
    [i \in Range0(n) |-> 4 * Total_Total[i] + 30 * elderly_ratio[i] + 30 * low_income_ratio[i]]

ZeroVector(n) == [i \in Range0(n) |-> 0]

\* The table a normalising script starts from.  risk_model_paper_aligned reads
\* no population; the predicting scripts read no ratio for the scores; the
\* table of aed_balanced_simple may already hold a risk_score column (line
\* 22), the ratios are not read then.
InitLoad ==
    /\ program \in NormalizeSites
    /\ pc = "start"
    /\ n_subzones \in 1 .. MaxSubzones
    /\ Total_Total \in (IF program = "risk_model_paper_aligned"
                        THEN {NoVector} ELSE [Range0(n_subzones) -> Populations])
    /\ \/ /\ program \in {"aed_final_optimization", "aed_balanced_simple"}
          /\ elderly_ratio \in [Range0(n_subzones) -> RatioGrid]
          /\ low_income_ratio \in [Range0(n_subzones) -> RatioGrid]
          /\ risk_score = NoVector
       \/ /\ program = "aed_balanced_simple"
          /\ elderly_ratio = ZeroVector(n_subzones)
          /\ low_income_ratio = ZeroVector(n_subzones)
          /\ risk_score \in [Range0(n_subzones) -> RiskGrid]
       \/ /\ program \in PredictingSites
          /\ elderly_ratio = NoVector
          /\ low_income_ratio = NoVector
          /\ risk_score = NoVector
    /\ normalized_risk_score = NoVector
    /\ area_weight = NoVector
    /\ priority_score = NoVector
    /\ total_aeds = 0
    /\ latitude = NoVector
    /\ coverage_matrix = NoVector
    /\ prob_status = 0
    /\ deployment = None
    /\ coverage_effect = None
    /\ main_outcome = "running"
    /\ IdleFallback
    /\ IdleAssign
    /\ IdlePipe
    /\ IdleMerge
    /\ IdleIntegrate

\* aed_final_optimization.py load_data, lines 40-53: the risk file is not
\* found, the scores are computed and normalised, then the area weights
FinalLoadData ==
    /\ program = "aed_final_optimization" /\ pc = "start"
    /\ risk_score' = FormulaRisk(n_subzones)
    /\ normalized_risk_score' = MinMaxNormalize(risk_score', n_subzones)
    /\ area_weight' = AreaWeights(Total_Total, n_subzones)
    /\ pc' = "loaded"
    /\ UNCHANGED <<program, mergeVars, integrateVars, n_subzones, total_aeds, allocVarsButShared, milpVars,
                   assignVars, pipeVars, elderly_ratio, low_income_ratio, priority_score>>

\* aed_final_optimization.py final_aed_allocation, line 73
FinalPriorityScores ==
    /\ program = "aed_final_optimization" /\ pc = "loaded"
    /\ priority_score' = [i \in Range0(n_subzones) |->
                             FloatMul(normalized_risk_score[i], area_weight[i])]
    /\ pc' = "priorities"
    /\ UNCHANGED <<program, mergeVars, integrateVars, n_subzones, total_aeds, allocVarsButShared, milpVars,
                   assignVars, pipeVars, elderly_ratio, low_income_ratio, risk_score,
                   normalized_risk_score, area_weight>>

\* aed_balanced_simple.py load_data, lines 17-30
BalancedLoadData ==
    /\ program = "aed_balanced_simple" /\ pc = "start"
    /\ area_weight' = AreaWeights(Total_Total, n_subzones)
    /\ risk_score' = IF risk_score = NoVector THEN FormulaRisk(n_subzones) ELSE risk_score
    /\ normalized_risk_score' = MinMaxNormalize(risk_score', n_subzones)
    /\ pc' = "loaded"
    /\ UNCHANGED <<program, mergeVars, integrateVars, n_subzones, total_aeds, allocVarsButShared, milpVars,
                   assignVars, pipeVars, elderly_ratio, low_income_ratio, priority_score>>

\* risk_model_paper_aligned.py predict_risk_scores, lines 242-254
PredictRiskScores ==
    /\ program = "risk_model_paper_aligned" /\ pc = "start"
    /\ \E risk_predictions \in [Range0(n_subzones) -> RiskGrid] :
          risk_score' = risk_predictions
    /\ normalized_risk_score' = MinMaxNormalize(risk_score', n_subzones)
    /\ pc' = "loaded"
    /\ UNCHANGED <<program, mergeVars, integrateVars, n_subzones, total_aeds, allocVarsButShared, milpVars,
                   assignVars, pipeVars, elderly_ratio, low_income_ratio, area_weight,
                   priority_score>>

\* optimized_risk_model_with_area.py generate_risk_scores, lines 108-119
GenerateRiskScores ==
    /\ program = "optimized_risk_model_with_area" /\ pc = "start"
    /\ \E risk_scores \in [Range0(n_subzones) -> RiskGrid] :
          risk_score' = risk_scores
    /\ area_weight' = AreaWeights(Total_Total, n_subzones)
    /\ normalized_risk_score' = MinMaxNormalize(risk_score', n_subzones)
    /\ pc' = "loaded"
    /\ UNCHANGED <<program, mergeVars, integrateVars, n_subzones, total_aeds, allocVarsButShared, milpVars,
                   assignVars, pipeVars, elderly_ratio, low_income_ratio, priority_score>>

NextLoad ==
    \/ FinalLoadData
    \/ FinalPriorityScores
    \/ BalancedLoadData
    \/ PredictRiskScores
    \/ GenerateRiskScores

SpecLoad == InitLoad /\ [][NextLoad]_vars

\* ============================================ run_complete_analysis.py
\* main, lines 85-109: the scripts of steps 1 to 5
StepScript ==
    << "code/optimized_risk_model_with_area.py",
       "code/aed_final_optimization.py",
       "code/optimized_volunteer_assignment_simple.py",
       "code/plot_aed_final_analysis.py",
       "code/create_geographic_heatmaps.py" >>

Steps == 1 .. Len(StepScript)

\* the file the scripts of steps 2 and 3 read their risk scores from
\* (aed_final_optimization.py line 30, optimized_volunteer_assignment_simple.py
\* line 25)
RiskFile == "outputs/risk_analysis_paper_aligned.csv"

\* the file the script of step 1 writes its risk scores to
\* (optimized_risk_model_with_area.py line 161)
RiskStageOutput == "outputs/optimized_risk_scores_with_area.csv"

FileNames == {RiskFile, RiskStageOutput}

\* the steps whose script loads risk scores
RiskReaders == {2, 3}

\* a process that has exited, or that subprocess.run could not start
Completed == {"succeeded", "failed", "not_spawned"}

\* The run starts with the output files absent or left by something that ran
\* before it.
InitPipe ==
    /\ program = "run_complete_analysis"
    /\ pc = "start"
    /\ step = 1
    /\ child = [k \in Steps |-> "not_started"]
    /\ started = <<>>
    /\ files \in [FileNames -> {"absent", "before_run"}]
    /\ risk_source = [k \in Steps |-> "none"]
    /\ n_subzones = 0
    /\ total_aeds = 0
    /\ IdleFallback
    /\ IdleMilp
    /\ IdleAssign
    /\ IdleLoad
    /\ IdleMerge
    /\ IdleIntegrate

\* main, lines 63-68: a missing folder ends the run before any step
CheckDirectories ==
    /\ program = "run_complete_analysis" /\ pc = "start"
    /\ \E folders_exist \in BOOLEAN : pc' = IF folders_exist THEN "call" ELSE "aborted"
    /\ UNCHANGED <<program, mergeVars, integrateVars, n_subzones, total_aeds, allocVarsButShared, milpVars,
                   assignVars, loadVars, pipeVars>>

\* run_script, line 33: subprocess.run starts the interpreter on the script
RunScriptCall ==
    /\ program = "run_complete_analysis" /\ pc = "call"
    /\ started' = Append(started, StepScript[step])
    /\ child' = [child EXCEPT ![step] = "running"]
    /\ pc' = "waiting"
    /\ UNCHANGED <<program, mergeVars, integrateVars, n_subzones, total_aeds, allocVarsButShared, milpVars,
                   assignVars, loadVars, step, files, risk_source>>

\* Faulty variant: a step that did not succeed ends the run.
AfterFailureStop(k) ==
    IF child[k] # "succeeded" \/ k + 1 > Len(StepScript) THEN "summary" ELSE "call"

\* where main goes after the run_script call of a step (lines 86-111)
AfterStep(k) == IF k + 1 > Len(StepScript) THEN "summary" ELSE "call"

\* run_script, lines 47-49: subprocess.run raises, no process ran; main goes on
SubprocessRaises ==
    /\ program = "run_complete_analysis" /\ pc = "call"
    /\ started' = Append(started, StepScript[step])
    /\ child' = [child EXCEPT ![step] = "not_spawned"]
    /\ step' = step + 1
    /\ pc' = AfterStep(step)
    /\ UNCHANGED <<program, mergeVars, integrateVars, n_subzones, total_aeds, allocVarsButShared, milpVars,
                   assignVars, loadVars, files, risk_source>>

\* The script of step 2 or 3 loads its risk scores: the rows of RiskFile, or
\* its own calculation when the file is not found.
ChildLoadsRisk(k) ==
    /\ program = "run_complete_analysis"
    /\ k \in RiskReaders
    /\ child[k] = "running"
    /\ risk_source[k] = "none"
    /\ risk_source' = [risk_source EXCEPT ![k] =
                          IF files[RiskFile] = "absent"
                          THEN "fallback_calculation" ELSE files[RiskFile]]
    /\ UNCHANGED <<program, mergeVars, integrateVars, pc, n_subzones, total_aeds, allocVarsButShared, milpVars,
                   assignVars, loadVars, step, child, started, files>>

\* The script of a step runs to its end and exits with code 0; the script of
\* step 1 has then written RiskStageOutput (save_results).
ChildSucceeds(k) ==
    /\ program = "run_complete_analysis"
    /\ child[k] = "running"
    /\ k \in RiskReaders => risk_source[k] # "none"
    /\ child' = [child EXCEPT ![k] = "succeeded"]
    /\ files' = IF k = 1 THEN [files EXCEPT ![RiskStageOutput] = "this_run"] ELSE files
    /\ UNCHANGED <<program, mergeVars, integrateVars, pc, n_subzones, total_aeds, allocVarsButShared, milpVars,
                   assignVars, loadVars, step, started, risk_source>>

\* The script of a step exits with a non-zero code.
ChildFails(k) ==
    /\ program = "run_complete_analysis"
    /\ child[k] = "running"
    /\ child' = [child EXCEPT ![k] = "failed"]
    /\ UNCHANGED <<program, mergeVars, integrateVars, pc, n_subzones, total_aeds, allocVarsButShared, milpVars,
                   assignVars, loadVars, step, started, files, risk_source>>

\* Faulty variant: the call returns as soon as the process is started
\* (subprocess.Popen without wait).
PopenReturns(k) == child[k] # "not_started"

\* subprocess.run returns once the process it started has exited
SubprocessRunReturns(k) == child[k] \in {"succeeded", "failed"}

\* run_script, lines 36-51, and main's "if not run_script(...)": whatever the
\* return code, main prints and goes on to the next step
RunScriptReturns ==
    /\ program = "run_complete_analysis" /\ pc = "waiting"
    /\ SubprocessRunReturns(step)
    /\ step' = step + 1
    /\ pc' = AfterStep(step)
    /\ UNCHANGED <<program, mergeVars, integrateVars, n_subzones, total_aeds, allocVarsButShared, milpVars,
                   assignVars, loadVars, child, started, files, risk_source>>

\* main, lines 113-126
MainSummary ==
    /\ program = "run_complete_analysis" /\ pc = "summary"
    /\ pc' = "done"
    /\ UNCHANGED <<program, mergeVars, integrateVars, n_subzones, total_aeds, allocVarsButShared, milpVars,
                   assignVars, loadVars, pipeVars>>

NextPipe ==
    \/ CheckDirectories
    \/ RunScriptCall
    \/ SubprocessRaises
    \/ \E k \in Steps : ChildLoadsRisk(k)
    \/ \E k \in Steps : ChildSucceeds(k)
    \/ \E k \in Steps : ChildFails(k)
    \/ RunScriptReturns
    \/ MainSummary

SpecPipe == InitPipe /\ [][NextPipe]_vars

\* ========================================= update_aed_data_integration.py
\* Device positions, in metres on the meridian of the centroids: 100 is
\* halfway between the centroids 0 and 200, 175 halfway between 0 and 350 and
\* between 150 and 200.
AedPositions == {0, 100, 175, 400}

\* the rows of a device file
AedFiles == UNION { [Range0(m) -> AedPositions] : m \in 0 .. MaxAeds }

\* len(aed_data)
AedRows == Cardinality(DOMAIN aed_data)

\* The two files as they are on disk: subzones with distinct centroids and
\* subzone_code the row number, devices anywhere, possibly none.
InitIntegrate ==
    /\ program = "integrate_aed_data"
    /\ pc = "start"
    /\ n_subzones \in 1 .. MaxSubzones
    /\ total_aeds = 0
    /\ IdleFallback
    /\ latitude \in { f \in [Range0(n_subzones) -> LinePositions] :
                        \A i, j \in Range0(n_subzones) : i # j => f[i] # f[j] }
    /\ Total_Total = NoVector
    /\ coverage_matrix = NoVector
    /\ prob_status = 0
    /\ deployment = None
    /\ coverage_effect = None
    /\ main_outcome = "running"
    /\ IdleAssign
    /\ IdleLoad
    /\ IdlePipe
    /\ IdleMerge
    /\ aed_data \in AedFiles
    /\ aed_assignments = <<>>
    /\ AED_count = NoVector
    /\ covered_subzones = 0
    /\ no_aed_subzones = 0

\* lines 14-22: both files are read, or the function prints and returns False
ReadTables ==
    /\ program = "integrate_aed_data" /\ pc = "start"
    /\ \E loaded \in BOOLEAN : pc' = IF loaded THEN "assigning" ELSE "returned_false"
    /\ UNCHANGED <<program, allocVars, milpVars, assignVars, loadVars, pipeVars,
                   mergeVars, integrateVars>>

\* Faulty variant: a subzone at the same distance replaces the one found.
DistanceNotFarther(distance, min_distance) ==
    ~min_distance.finite \/ distance <= min_distance.metres

\* line 44: if distance < min_distance  (min_distance starts as float('inf'))
DistanceCloser(distance, min_distance) ==
    ~min_distance.finite \/ distance < min_distance.metres

RECURSIVE ScanSubzones(_, _)
\* lines 34-46: min_distance and closest_subzone after the first k subzones
ScanSubzones(aed, k) ==
    IF k = 0 THEN [min_distance |-> Inf, closest_subzone |-> -1]
    ELSE LET before == ScanSubzones(aed, k - 1)
             distance == Geodesic(aed, latitude[k - 1])
         IN  IF DistanceCloser(distance, before.min_distance)
             THEN [min_distance |-> Finite(distance), closest_subzone |-> k - 1]
             ELSE before

\* lines 33-56: one iteration of the loop over the device rows
AssignAed ==
    /\ program = "integrate_aed_data" /\ pc = "assigning"
    /\ Len(aed_assignments) < AedRows
    /\ LET aed == aed_data[Len(aed_assignments)]
           found == ScanSubzones(aed, n_subzones)
       IN  aed_assignments' = Append(aed_assignments,
               [aed_id |-> Len(aed_assignments),
                latitude |-> aed,
                assigned_subzone |-> found.closest_subzone,
                distance_to_centroid |-> found.min_distance])
    /\ UNCHANGED <<program, pc, allocVars, milpVars, assignVars, loadVars, pipeVars,
                   mergeVars, aed_data, AED_count, covered_subzones, no_aed_subzones>>

\* line 62, groupby('assigned_subzone').size(): one row per subzone that occurs
\* in the records, with the number of its records
GroupKeys(records) == { records[k].assigned_subzone : k \in 1 .. Len(records) }

GroupSize(records, key) ==
    Cardinality({ k \in 1 .. Len(records) : records[k].assigned_subzone = key })

\* lines 66-69: left merge on subzone_code, fillna(0), astype(int)
MergedCount(records, code) ==
    IF code \in GroupKeys(records) THEN GroupSize(records, code) ELSE 0

\* lines 59-102 with at least one record: the counts, the updated column and
\* the printed statistics
IntegrateCounts ==
    /\ program = "integrate_aed_data" /\ pc = "assigning"
    /\ Len(aed_assignments) = AedRows
    /\ aed_assignments # <<>>
    /\ AED_count' = [code \in Range0(n_subzones) |-> MergedCount(aed_assignments, code)]
    /\ covered_subzones' =
          Cardinality({ key \in GroupKeys(aed_assignments) :
                          GroupSize(aed_assignments, key) > 0 })
    /\ no_aed_subzones' =
          Cardinality({ key \in GroupKeys(aed_assignments) :
                          GroupSize(aed_assignments, key) = 0 })
    /\ pc' = "done"
    /\ UNCHANGED <<program, allocVars, milpVars, assignVars, loadVars, pipeVars,
                   mergeVars, aed_data, aed_assignments>>

\* lines 59-62 with a device file without rows: pd.DataFrame([]) has no
\* column 'assigned_subzone' and groupby raises KeyError
GroupbyRaises ==
    /\ program = "integrate_aed_data" /\ pc = "assigning"
    /\ Len(aed_assignments) = AedRows
    /\ aed_assignments = <<>>
    /\ pc' = "raised"
    /\ UNCHANGED <<program, allocVars, milpVars, assignVars, loadVars, pipeVars,
                   mergeVars, integrateVars>>

NextIntegrate ==
    \/ ReadTables
    \/ AssignAed
    \/ IntegrateCounts
    \/ GroupbyRaises

SpecIntegrate == InitIntegrate /\ [][NextIntegrate]_vars

\* ------------------------------ each script is a program of its own: a run
\* executes one of them
Init == InitFallback \/ InitMilp \/ InitAssign \/ InitLoad \/ InitPipe \/ InitMerged
            \/ InitBalanced \/ InitIntegrate

Next == NextFallback \/ NextMilp \/ NextAssign \/ NextLoad \/ NextPipe \/ ProportionalRaises
            \/ NextBalanced \/ NextIntegrate

Spec == Init /\ [][Next]_vars

\* =================================================================== claims
FallbackDone == program = "final_aed_allocation" /\ pc = "done"

\* Units a subzone got from the remainder loop so far (beyond the base unit
\* and its truncated proportional share).
LeftoverUnits(i) == base_allocation[i] - 1 - proportional_allocation[i]

\* Positional reading of np.argsort(priority_scores)[::-1]: the subzone at
\* position k of the descending priority order.
DescendingPosition(k) == priority_indices[k].value

ScenarioA ==
    /\ program = "final_aed_allocation"
    /\ n_subzones = 3
    /\ priority_scores = [i \in Range0(3) |-> <<1, 5, 9>>[i + 1]]
    /\ total_aeds = 6

Vec3(a, b, c) == [i \in Range0(3) |-> <<a, b, c>>[i + 1]]

\* C1: when final_aed_allocation returns, the allocated units sum to the
\* target budget exactly, for every N >= 1, every budget B >= 0 and every
\* priority vector (the all-zero vector included).
C1_SumEqualsBudget ==
    FallbackDone => SumTo(base_allocation, n_subzones) = total_aeds

\* C2: every entry of the allocation returned by final_aed_allocation is a
\* non-negative integer, for every N, every budget B >= 0 and every priority
\* vector.
C2_EntriesNonNegative ==
    FallbackDone => \A i \in Range0(n_subzones) : base_allocation[i] \in Nat

C8_LeftoverDescendingOrder ==
    (program = "final_aed_allocation" /\ pc = "remainder" /\ loop_i > 0) =>
        priority_scores[last_idx] =
            priority_scores[DescendingPosition((loop_i - 1) % n_subzones)]

\* C9: of two subzones with equal priority_score, the one with the smaller id
\* receives a leftover unit first (it never has fewer leftover units than the
\* one with the larger id).
C9_TiesAscendingId ==
    (program = "final_aed_allocation" /\ pc \in {"remainder", "done"}) =>
        \A a, b \in Range0(n_subzones) :
            (a < b /\ priority_scores[a] = priority_scores[b]) =>
                LeftoverUnits(a) >= LeftoverUnits(b)

MilpReturned ==
    program = "real_aed_optimization_with_area" /\ pc \in {"returned", "main_done"}

\* C4: when the allocation solver ends in a non-optimal status, the stage
\* returns an allocation vector that sums to the budget (the proportional
\* fallback), never a missing allocation.
C4_NonOptimalReturnsAllocation ==
    (MilpReturned /\ prob_status # LpStatusOptimal) =>
        /\ deployment # None
        /\ SumTo(deployment, n_subzones) = total_aeds

\* C7: coverage(i, i) holds for every subzone i, and the coverage_effect of a
\* subzone counts the units deployed on it.
C7_SelfCoverage ==
    (program = "real_aed_optimization_with_area" /\ pc # "start") =>
        /\ \A i \in Range0(n_subzones) : coverage_matrix[i][i] = 1
        /\ (MilpReturned /\ prob_status = LpStatusOptimal) =>
              \A i \in Range0(n_subzones) :
                  coverage_effect[i] >= deployment[i] * RiskTimesWeight(i)

AssignReturnedList == program \in AssignPrograms /\ pc = "returned" /\ returned = "list"

RecordsOfSubzone(i) == { a \in assignments : a.subzone = i }

RecordsOfVolunteer(j) == { a \in assignments : a.volunteer = j }

\* C5: in every result of either assignment optimizer, each subzone receives
\* at most C = 3 responders.
C5_SubzoneCapacity ==
    AssignReturnedList =>
        \A i \in Range0(n_subzones) : Cardinality(RecordsOfSubzone(i)) <= MaxPerSubzone

\* C6: in every result of either assignment optimizer, each responder appears
\* in at most one assignment record.
C6_OneSubzonePerResponder ==
    AssignReturnedList =>
        \A j \in Range0(n_volunteers) : Cardinality(RecordsOfVolunteer(j)) <= 1

\* C6 (reached): a result with two records, one of them for a responder that
\* could reach two subzones.
C6_Witness ==
    /\ AssignReturnedList
    /\ Cardinality(assignments) >= 2
    /\ \E a \in assignments :
          Cardinality({ p \in ValidPairs : p[2] = a.volunteer }) = 2

\* C11: whenever area_weighted_multi_cover_deployment returns an allocation,
\* every x_j is a non-negative integer and the x_j sum to total_aeds exactly.
C11_MilpIntegerSumsToBudget ==
    (MilpReturned /\ deployment # None) =>
        /\ \A j \in Range0(n_subzones) : deployment[j] \in Nat
        /\ SumTo(deployment, n_subzones) = total_aeds

\* C11 (reached): an allocation of a budget of at least 2 over at least two
\* subzones was returned, with a subzone that received nothing.
C11_Witness ==
    /\ MilpReturned /\ deployment # None
    /\ n_subzones >= 2 /\ total_aeds >= 2
    /\ \E j \in Range0(n_subzones) : deployment[j] = 0

\* C18: for distinct subzones i and j the coverage matrix has coverage(i, j)
\* exactly when their geodesic distance is at most the radius.
C18_CoverageIffWithinRadius ==
    (program = "real_aed_optimization_with_area" /\ pc # "start") =>
        \A i, j \in Range0(n_subzones) :
            i # j => (coverage_matrix[i][j] = 1
                        <=> Geodesic(latitude[i], latitude[j]) <= CoverageRadius)

\* C18 (reached): a matrix with a covered pair at exactly the radius and an
\* uncovered pair beyond it.
C18_Witness ==
    /\ program = "real_aed_optimization_with_area" /\ pc # "start"
    /\ \E i, j \in Range0(n_subzones) :
          /\ Geodesic(latitude[i], latitude[j]) = CoverageRadius
          /\ coverage_matrix[i][j] = 1
    /\ \E i, j \in Range0(n_subzones) :
          /\ Geodesic(latitude[i], latitude[j]) > CoverageRadius
          /\ coverage_matrix[i][j] = 0

AssignReturned == program \in AssignPrograms /\ pc = "returned"

\* a responder within the reachability radius of a subzone
Reachable(i, j) == Geodesic(latitude[i], volunteer_data[j].latitude) <= MaxDistance

\* C12: every assignment record pairs a subzone with a responder at most
\* max_distance away; a subzone with no reachable responder has no record and
\* a responder with no reachable subzone is unused.
C12_RecordsWithinRadius ==
    AssignReturned =>
        /\ \A a \in assignments :
              /\ Reachable(a.subzone, a.volunteer)
              /\ a.distance = Geodesic(latitude[a.subzone],
                                       volunteer_data[a.volunteer].latitude)
        /\ \A i \in Range0(n_subzones) :
              (\A j \in Range0(n_volunteers) : ~Reachable(i, j)) => RecordsOfSubzone(i) = {}
        /\ \A j \in Range0(n_volunteers) :
              (\A i \in Range0(n_subzones) : ~Reachable(i, j)) => RecordsOfVolunteer(j) = {}

\* C12 (reached): a result with a record at exactly max_distance, while an
\* available responder out of reach of every subzone is unused.
C12_Witness ==
    /\ AssignReturnedList
    /\ \E a \in assignments : a.distance = MaxDistance
    /\ \E j \in Range0(n_volunteers) :
          /\ volunteer_data[j].availability = 1
          /\ \A i \in Range0(n_subzones) : ~Reachable(i, j)
          /\ RecordsOfVolunteer(j) = {}

\* Scenario B: no available responder within the radius of any subzone.
ScenarioB ==
    /\ program \in AssignPrograms
    /\ \A i \in Range0(n_subzones) : \A j \in Range0(n_volunteers) :
          ~(volunteer_data[j].availability = 1 /\ Reachable(i, j))

\* plot_coverage_map: the subzones with volunteer_count > 0
TotalCovered == Cardinality({ i \in Range0(n_subzones) : RecordsOfSubzone(i) # {} })

\* plot_coverage_map: coverage_rate = total_covered / total_subzones * 100
CoverageRate == [num |-> TotalCovered * 100, den |-> n_subzones]

C14_NonOptimalSurfacesError ==
    (AssignReturned /\ prob_status # LpStatusOptimal) =>
        /\ returned = "None"
        /\ assignments = {}

Normalized == program \in NormalizeSites /\ pc # "start"

Degenerate == SeriesMax(risk_score, n_subzones) = SeriesMin(risk_score, n_subzones)

IsZero(v) == v.kind = "num" /\ v.num = 0

IsOne(v) == v.kind = "num" /\ v.num = v.den

InUnitInterval(v) == v.kind = "num" /\ 0 <= v.num /\ v.num <= v.den

\* C15: when all risk scores are equal (a single subzone included), the
\* normalized risk score is the number 0 for every subzone, never NaN, in
\* every script that computes the normalisation.
C15_DegenerateNormalizesToZero ==
    (Normalized /\ Degenerate) =>
        \A i \in Range0(n_subzones) : IsZero(normalized_risk_score[i])

\* C16: when max > min, every normalized risk score lies in [0, 1], a subzone
\* with the minimum raw score gets exactly 0 and one with the maximum raw
\* score gets exactly 1.
C16_NormalizedInUnitInterval ==
    (Normalized /\ ~Degenerate) =>
        \A i \in Range0(n_subzones) :
            /\ InUnitInterval(normalized_risk_score[i])
            /\ risk_score[i] = SeriesMin(risk_score, n_subzones)
                  => IsZero(normalized_risk_score[i])
            /\ risk_score[i] = SeriesMax(risk_score, n_subzones)
                  => IsOne(normalized_risk_score[i])

\* C16 (reached): three subzones with three different raw scores, the lowest
\* of them negative, were normalised; the middle one lies strictly inside.
C16_Witness ==
    /\ Normalized /\ n_subzones = 3
    /\ risk_score[0] < risk_score[1] /\ risk_score[1] < risk_score[2]
    /\ risk_score[0] < 0
    /\ IsZero(normalized_risk_score[0])
    /\ IsOne(normalized_risk_score[2])
    /\ 0 < normalized_risk_score[1].num
    /\ normalized_risk_score[1].num < normalized_risk_score[1].den

\* C17: area_weight lies in [0, 1] for every subzone and is 1.0 for the most
\* populous one, for every table (one with every population 0 included), and
\* priority_score = normalized_risk_score x area_weight lies in [0, 1].
C17_AreaWeightInUnitInterval ==
    (Normalized /\ program # "risk_model_paper_aligned") =>
        /\ \A i \in Range0(n_subzones) :
              /\ InUnitInterval(area_weight[i])
              /\ Total_Total[i] = SeriesMax(Total_Total, n_subzones)
                    => IsOne(area_weight[i])
        /\ pc = "priorities" =>
              \A i \in Range0(n_subzones) : InUnitInterval(priority_score[i])

\* C19: the complete-analysis run starts its scripts in the fixed order risk
\* modelling, device allocation, responder assignment, then the two reporting
\* scripts, and starts none before the process of every earlier step is over.
C19_StagesStrictlySequential ==
    program = "run_complete_analysis" =>
        /\ Len(started) <= Len(StepScript)
        /\ started = SubSeq(StepScript, 1, Len(started))
        /\ \A k \in Steps :
              child[k] # "not_started" => \A j \in 1 .. (k - 1) : child[j] \in Completed

\* C19 (reached): the assignment script is running after the risk script
\* failed and the allocation script succeeded.
C19_Witness ==
    /\ program = "run_complete_analysis"
    /\ child[1] = "failed" /\ child[2] = "succeeded" /\ child[3] = "running"
    /\ Len(started) = 3

\* C20: in a complete-analysis run whose risk script succeeded, the risk
\* scores the allocation script and the assignment script load are the ones
\* the risk script of this run wrote.
C20_StagesReadRiskOfThisRun ==
    (program = "run_complete_analysis" /\ child[1] = "succeeded") =>
        \A k \in RiskReaders : risk_source[k] # "none" => risk_source[k] = "this_run"

\* C21: the proportional fallback gives every subzone at least 1 unit
\* whenever the budget is at least the number of subzones.
C21_AtLeastOneUnit ==
    (FallbackDone /\ total_aeds >= n_subzones) =>
        \A i \in Range0(n_subzones) : base_allocation[i] >= 1

\* C21 (reached): a budget above the number of subzones was allocated, a
\* subzone of priority 0 kept exactly its base unit and another got 3 or more.
C21_Witness ==
    /\ FallbackDone /\ total_aeds > n_subzones
    /\ \E i \in Range0(n_subzones) : priority_scores[i] = 0 /\ base_allocation[i] = 1
    /\ \E i \in Range0(n_subzones) : base_allocation[i] >= 3

\* C28: for a budget of at least the number of subzones, a subzone with a
\* strictly higher priority_score is allocated at least as many units as one
\* with a lower priority_score.
C28_MonotoneInPriority ==
    (FallbackDone /\ total_aeds >= n_subzones) =>
        \A a, b \in Range0(n_subzones) :
            priority_scores[a] > priority_scores[b] => base_allocation[a] >= base_allocation[b]

\* C24: once the folders exist every one of the five steps is attempted
\* exactly once, in the fixed order, whatever the outcome of the earlier
\* steps; when a folder is missing no step is attempted.
C24_EveryStepAttemptedOnce ==
    program = "run_complete_analysis" =>
        /\ pc = "aborted" =>
              started = <<>> /\ \A k \in Steps : child[k] = "not_started"
        /\ pc \in {"summary", "done"} =>
              started = StepScript /\ \A k \in Steps : child[k] \in Completed
        /\ \A a, b \in 1 .. Len(started) : a # b => started[a] # started[b]

\* C24 (reached): the run is over with five attempts although the first
\* script failed and the second could not be started.
C24_Witness ==
    /\ program = "run_complete_analysis" /\ pc = "done"
    /\ Len(started) = Len(StepScript)
    /\ child[1] = "failed" /\ child[2] = "not_spawned" /\ child[3] = "succeeded"

MaxColumnWeight ==
    CHOOSE w \in { ColumnWeight(j) : j \in Range0(n_subzones) } :
        \A j \in Range0(n_subzones) : ColumnWeight(j) <= w

\* the whole budget on subzone j
Concentrated(j) == [k \in Range0(n_subzones) |-> IF k = j THEN total_aeds ELSE 0]

\* C29: the optimal objective value of the MILP allocation is total_aeds times
\* the largest column weight, it is attained by putting the whole budget on one
\* subzone, and the coverage_effect values of the returned allocation sum to it.
C29_OptimumConcentrates ==
    (MilpReturned /\ prob_status = LpStatusOptimal) =>
        /\ DeployObjective(deployment) = total_aeds * MaxColumnWeight
        /\ \E j \in Range0(n_subzones) :
              DeployObjective(Concentrated(j)) = DeployObjective(deployment)
        /\ SumTo(coverage_effect, n_subzones) = total_aeds * MaxColumnWeight

\* C29 (reached): an optimal allocation of a budget of at least 2 with a
\* positive objective was returned that is spread over two subzones.
C29_Witness ==
    /\ MilpReturned /\ prob_status = LpStatusOptimal
    /\ total_aeds >= 2 /\ MaxColumnWeight > 0
    /\ Cardinality({ j \in Range0(n_subzones) : deployment[j] > 0 }) = 2

\* the subzones with a finite distance to volunteer j
ReachableSubzones(j) == { i \in Range0(n_subzones) : <<i, j>> \in ValidPairs }

\* C30: in every optimal result of optimized_volunteer_assignment_simple, an
\* available responder with a reachable subzone of positive priority has
\* exactly one record, for a subzone of maximal priority among those the
\* responder can reach.
C30_AssignedToBestReachable ==
    (program = "optimized_volunteer_assignment_simple" /\ AssignReturnedList) =>
        \A j \in Range0(n_volunteers) :
            (/\ volunteer_data[j].availability = 1
             /\ \E i \in ReachableSubzones(j) : subzone_priority[i] > 0)
            => /\ Cardinality(RecordsOfVolunteer(j)) = 1
               /\ \A a \in RecordsOfVolunteer(j) : \A i \in ReachableSubzones(j) :
                      subzone_priority[i] <= subzone_priority[a.subzone]

\* C30 (reached): a responder that reaches two subzones of different positive
\* priorities has its record for the one of higher priority.
C30_Witness ==
    /\ program = "optimized_volunteer_assignment_simple" /\ AssignReturnedList
    /\ \E a \in assignments : \E i \in ReachableSubzones(a.volunteer) :
          /\ subzone_priority[i] > 0
          /\ subzone_priority[i] < subzone_priority[a.subzone]

\* C27: final_aed_allocation returns an allocation without raising for every
\* input table, one where some subzones have no normalized risk score while
\* others have a positive priority included.
C27_CompletesWithoutRaising ==
    program = "final_aed_allocation" => pc # "raised"

BalancedDone == program = "balanced_aed_allocation" /\ pc = "done"

\* C22: the tiered balanced allocation distributes the full budget: the sum
\* of the returned allocation equals total_aeds.
C22_BalancedSumEqualsBudget ==
    BalancedDone => SumTo(base_allocation, n_subzones) = total_aeds

\* the ranks (1-based positions of the descending order) at which subzone s
\* was given its extra units
RanksOf(s) ==
    IF priority_indices = NoVector THEN {}
    ELSE { k + 1 : k \in { j \in Range0(n_subzones) :
                             NumpyIndex(priority_indices[j].value, n_subzones) = s } }

\* the most the tiers allow subzone s, base unit included
TierLimit(s) ==
    IF \E r \in RanksOf(s) : 5 * r <= n_subzones THEN 6
    ELSE IF \E r \in RanksOf(s) : 2 * r <= n_subzones THEN 4
    ELSE 2

\* C23: in the tiered balanced allocation a subzone ranked in the top 20% by
\* priority gets at most 6 units, one in the top 50% at most 4, any other at
\* most 2, and every subzone gets at least 1.
C23_TierCaps ==
    BalancedDone =>
        \A s \in Range0(n_subzones) :
            base_allocation[s] >= 1 /\ base_allocation[s] <= TierLimit(s)

IntegrateDone == program = "integrate_aed_data" /\ pc = "done"

\* the subzones of the updated table without a device, and those with one
EmptySubzones == { code \in Range0(n_subzones) : AED_count[code] = 0 }

EquippedSubzones == { code \in Range0(n_subzones) : AED_count[code] > 0 }

\* C25: after integrate_aed_data the reported no_aed_subzones is the number
\* of subzones whose updated AED_count is 0 and the reported covered_subzones
\* is the number of subzones whose updated AED_count is greater than 0.
C25_ReportedCountsMatchColumn ==
    IntegrateDone =>
        /\ no_aed_subzones = Cardinality(EmptySubzones)
        /\ covered_subzones = Cardinality(EquippedSubzones)

\* the distance of record r's device to the centroid of subzone code
DistanceToCentroid(r, code) == Geodesic(r.latitude, latitude[code])

====
